---- MODULE Spec2Model ----
(***************************************************************************)
(* Model of scripts/clear_locomo_chunks.py: main() reads a LOCOMO dataset, *)
(* derives one agent id per record and POSTs one /memory/clear-chunks      *)
(* request per record, strictly in sequence, stopping at the first error.  *)
(* The memory server and the file system are the environment.              *)
(***************************************************************************)
EXTENDS Integers, Sequences, FiniteSets, TLC

\* ---------------------------------------------------------------- bounds
MaxRecords == 3
MaxRuns == 2

\* ------------------------------------------------------------ input sets
SampleIds == {"A", "B"}

\* A dataset record: an object with a sample_id, or an object without one.
Records == {[sample_id |-> s] : s \in SampleIds} \cup {[conversation |-> "c"]}

Datasets == UNION {[1..n -> Records] : n \in 0..MaxRecords}

\* HTTP status codes the server answers with.
Statuses == {200, 204, 302, 500}

\* What one POST can come back with: a response with a status, or a
\* transport error raised by the client (timeout=30 expired, connect error).
Outcomes == {[kind |-> "status", code |-> c] : c \in Statuses}
            \cup {[kind |-> "timeout", code |-> 0], [kind |-> "connect_error", code |-> 0]}

DataPath == "benchmarks/EasyLocomo/data/locomo10.json"

\* -------------------------------------------------------- pure functions
\* locomo_utils.sample_id_to_uuid: deterministic, sample_id -> agent id.
sample_id_to_uuid(s) ==
    CASE s = "A" -> "u1"
      [] s = "B" -> "u2"
      [] OTHER   -> "u0"

Uuids == {sample_id_to_uuid(s) : s \in SampleIds}

\* httpx Response.is_success, as used by raise_for_status().
IsSuccess(code) == code >= 200 /\ code < 300

\* console lines
Line(kind, path, sid, aid, n) ==
    [kind |-> kind, path |-> path, sample_id |-> sid, agent_id |-> aid, count |-> n]

ErrorLine == Line("not_found", DataPath, "", "", 0)
HeaderLine(n) == Line("header", "", "", "", n)
DoneLine == Line("done", "", "", "", 0)

VARIABLES
    pc,            \* position of main()
    run,           \* number of the current invocation of the script
    fileExists,    \* the dataset path exists
    malformed,     \* the file is not valid JSON
    dataset,       \* the records in the file, in file order
    serverChunks,  \* agent ids that have chunks stored on the server
    samples,       \* local `samples`
    loaded,        \* json.load has returned in this run
    i,             \* position of the for loop (number of records taken)
    agent_id,      \* local `agent_id`
    resp,          \* status code of local `resp` (0: none)
    clientOpen,    \* the httpx.Client context is entered
    clientOpened,  \* a client was opened at some point of this run
    requests,      \* POSTs issued in this run, in order
    responses,     \* outcome of each POST of this run, in order
    inflight,      \* POSTs issued and not yet returned
    output,        \* console lines printed in this run
    failure,       \* exception that ended the run ("" : none)
    prevPc, prevRequests, prevOutput   \* how the previous run ended

vars == <<pc, run, fileExists, malformed, dataset, serverChunks, samples, loaded,
          i, agent_id, resp, clientOpen, clientOpened, requests, responses,
          inflight, output, failure, prevPc, prevRequests, prevOutput>>

env == <<run, fileExists, malformed, dataset, prevPc, prevRequests, prevOutput>>

Terminal == {"returned", "finished", "crashed"}

ClearedLineWithStatus(sample, aid) == Line("cleared", "", sample.sample_id, aid, resp)
ClearedLine(sample, aid) == Line("cleared", "", sample.sample_id, aid, 0)

\* the loop variable `sample`
CurrentSampleReversed == samples[Len(samples) + 1 - i]
CurrentSample == samples[i]

Init ==
    /\ pc = "exists"
    /\ run = 1
    /\ fileExists \in BOOLEAN
    /\ malformed \in BOOLEAN
    /\ dataset \in Datasets
    /\ (~fileExists => ~malformed)
    /\ (~fileExists \/ malformed => dataset = <<>>)
    /\ serverChunks \in SUBSET Uuids
    /\ samples = <<>>
    /\ loaded = FALSE
    /\ i = 0
    /\ agent_id = ""
    /\ resp = 0
    /\ clientOpen = FALSE
    /\ clientOpened = FALSE
    /\ requests = <<>>
    /\ responses = <<>>
    /\ inflight = 0
    /\ output = <<>>
    /\ failure = ""
    /\ prevPc = ""
    /\ prevRequests = <<>>
    /\ prevOutput = <<>>

\* An exception propagates out of main(): the with-block closes the client.
Crash(exc) ==
    /\ pc' = "crashed"
    /\ failure' = exc
    /\ clientOpen' = FALSE

\* if not data_path.exists(): print(...); return
CheckExistsFallThrough ==
    /\ pc = "exists"
    /\ IF fileExists
         THEN pc' = "load" /\ output' = output
         ELSE pc' = "load" /\ output' = Append(output, ErrorLine)
    /\ UNCHANGED <<env, serverChunks, samples, loaded, i, agent_id, resp, clientOpen,
                   clientOpened, requests, responses, inflight, failure>>

CheckExists ==
    /\ pc = "exists"
    /\ IF fileExists
         THEN pc' = "load" /\ output' = output
         ELSE pc' = "returned" /\ output' = Append(output, ErrorLine)
    /\ UNCHANGED <<env, serverChunks, samples, loaded, i, agent_id, resp, clientOpen,
                   clientOpened, requests, responses, inflight, failure>>

\* with open(data_path) as f: samples = json.load(f)
LoadValidating ==
    /\ pc = "load"
    /\ IF ~fileExists
         THEN Crash("FileNotFoundError") /\ UNCHANGED <<samples, loaded>>
         ELSE IF malformed
           THEN Crash("JSONDecodeError") /\ UNCHANGED <<samples, loaded>>
           ELSE IF \E k \in 1..Len(dataset) : "sample_id" \notin DOMAIN dataset[k]
             THEN Crash("KeyError") /\ UNCHANGED <<samples, loaded>>
             ELSE /\ samples' = dataset
                  /\ loaded' = TRUE
                  /\ pc' = "header"
                  /\ UNCHANGED <<failure, clientOpen>>
    /\ UNCHANGED <<env, serverChunks, i, agent_id, resp, clientOpened, requests,
                   responses, inflight, output>>

Load ==
    /\ pc = "load"
    /\ IF ~fileExists
         THEN Crash("FileNotFoundError") /\ UNCHANGED <<samples, loaded>>
         ELSE IF malformed
           THEN Crash("JSONDecodeError") /\ UNCHANGED <<samples, loaded>>
           ELSE /\ samples' = dataset
                /\ loaded' = TRUE
                /\ pc' = "header"
                /\ UNCHANGED <<failure, clientOpen>>
    /\ UNCHANGED <<env, serverChunks, i, agent_id, resp, clientOpened, requests,
                   responses, inflight, output>>

\* print(f"Clearing chunks for {len(samples)} LOCOMO agents...")
PrintHeader ==
    /\ pc = "header"
    /\ output' = Append(output, HeaderLine(Len(samples)))
    /\ pc' = "client"
    /\ UNCHANGED <<env, serverChunks, samples, loaded, i, agent_id, resp, clientOpen,
                   clientOpened, requests, responses, inflight, failure>>

\* with httpx.Client() as client:
OpenClient ==
    /\ pc = "client"
    /\ clientOpen' = TRUE
    /\ clientOpened' = TRUE
    /\ pc' = "loop"
    /\ UNCHANGED <<env, serverChunks, samples, loaded, i, agent_id, resp, requests,
                   responses, inflight, output, failure>>

\* for sample in samples: take the next record, or leave the loop and the
\* with-block when the list is exhausted.
LoopSkipLast ==
    /\ pc = "loop"
    /\ IF i + 1 < Len(samples)
         THEN i' = i + 1 /\ pc' = "derive" /\ UNCHANGED clientOpen
         ELSE i' = i /\ pc' = "done" /\ clientOpen' = FALSE
    /\ UNCHANGED <<env, serverChunks, samples, loaded, agent_id, resp, clientOpened,
                   requests, responses, inflight, output, failure>>

Loop ==
    /\ pc = "loop"
    /\ IF i < Len(samples)
         THEN i' = i + 1 /\ pc' = "derive" /\ UNCHANGED clientOpen
         ELSE i' = i /\ pc' = "done" /\ clientOpen' = FALSE
    /\ UNCHANGED <<env, serverChunks, samples, loaded, agent_id, resp, clientOpened,
                   requests, responses, inflight, output, failure>>

\* agent_id = sample_id_to_uuid(sample["sample_id"])
Derive ==
    /\ pc = "derive"
    /\ IF "sample_id" \in DOMAIN CurrentSample
         THEN /\ agent_id' = sample_id_to_uuid(CurrentSample.sample_id)
              /\ pc' = "post"
              /\ UNCHANGED <<failure, clientOpen>>
         ELSE /\ Crash("KeyError")
              /\ UNCHANGED agent_id
    /\ UNCHANGED <<env, serverChunks, samples, loaded, i, resp, clientOpened, requests,
                   responses, inflight, output>>

\* The request of client.post(url, json={"agent_id": agent_id}, timeout=30);
\* `record` is the position of the record it was made for.
Request == [path |-> "/memory/clear-chunks", agent_id |-> agent_id, record |-> i]

\* client.post(...): the request goes out
PostNoWait ==
    /\ pc = "post"
    /\ requests' = Append(requests, Request)
    /\ inflight' = inflight + 1
    /\ pc' = "loop"
    /\ UNCHANGED <<env, serverChunks, samples, loaded, i, agent_id, resp, clientOpen,
                   clientOpened, responses, output, failure>>

PostAndPrint ==
    /\ pc = "post"
    /\ requests' = Append(requests, Request)
    /\ inflight' = inflight + 1
    /\ output' = Append(output, ClearedLine(CurrentSample, agent_id))
    /\ pc' = "await"
    /\ UNCHANGED <<env, serverChunks, samples, loaded, i, agent_id, resp, clientOpen,
                   clientOpened, responses, failure>>

PostRequest ==
    /\ pc = "post"
    /\ requests' = Append(requests, Request)
    /\ inflight' = inflight + 1
    /\ pc' = "await"
    /\ UNCHANGED <<env, serverChunks, samples, loaded, i, agent_id, resp, clientOpen,
                   clientOpened, responses, output, failure>>

\* The server's part of one request: a success response means the agent's
\* chunks are gone; a request that timed out may or may not have been acted on.
ServerEffect(o) ==
    CASE o.kind = "status" /\ IsSuccess(o.code) ->
            serverChunks' = serverChunks \ {agent_id}
      [] o.kind = "timeout" ->
            serverChunks' \in {serverChunks, serverChunks \ {agent_id}}
      [] OTHER -> serverChunks' = serverChunks

\* client.post(...) returns a response or raises a transport error
AwaitRetryOnTimeout ==
    /\ pc = "await"
    /\ \E o \in Outcomes :
         /\ responses' = Append(responses, o)
         /\ inflight' = inflight - 1
         /\ ServerEffect(o)
         /\ IF o.kind = "status"
              THEN resp' = o.code /\ pc' = "raise" /\ UNCHANGED <<failure, clientOpen>>
              ELSE IF o.kind = "timeout"
                THEN pc' = "post" /\ UNCHANGED <<resp, failure, clientOpen>>
                ELSE Crash(o.kind) /\ UNCHANGED resp
    /\ UNCHANGED <<env, samples, loaded, i, agent_id, clientOpened, requests, output>>

AwaitSwallowError ==
    /\ pc = "await"
    /\ \E o \in Outcomes :
         /\ responses' = Append(responses, o)
         /\ inflight' = inflight - 1
         /\ ServerEffect(o)
         /\ IF o.kind = "status"
              THEN resp' = o.code /\ pc' = "raise"
              ELSE resp' = resp /\ pc' = "loop"
         /\ UNCHANGED <<failure, clientOpen>>
    /\ UNCHANGED <<env, samples, loaded, i, agent_id, clientOpened, requests, output>>

AwaitResponse ==
    /\ pc = "await"
    /\ \E o \in Outcomes :
         /\ responses' = Append(responses, o)
         /\ inflight' = inflight - 1
         /\ ServerEffect(o)
         /\ IF o.kind = "status"
              THEN resp' = o.code /\ pc' = "raise" /\ UNCHANGED <<failure, clientOpen>>
              ELSE Crash(o.kind) /\ UNCHANGED resp
    /\ UNCHANGED <<env, samples, loaded, i, agent_id, clientOpened, requests, output>>

\* resp.raise_for_status()
RaiseOnlyOn4xx5xx ==
    /\ pc = "raise"
    /\ IF resp < 400
         THEN pc' = "print" /\ UNCHANGED <<failure, clientOpen>>
         ELSE Crash("HTTPStatusError")
    /\ UNCHANGED <<env, serverChunks, samples, loaded, i, agent_id, resp, clientOpened,
                   requests, responses, inflight, output>>

RaiseForStatus ==
    /\ pc = "raise"
    /\ IF IsSuccess(resp)
         THEN pc' = "print" /\ UNCHANGED <<failure, clientOpen>>
         ELSE Crash("HTTPStatusError")
    /\ UNCHANGED <<env, serverChunks, samples, loaded, i, agent_id, resp, clientOpened,
                   requests, responses, inflight, output>>

\* print(f"  {sample['sample_id']} ({agent_id}): cleared")
PrintCleared ==
    /\ pc = "print"
    /\ output' = Append(output, ClearedLine(CurrentSample, agent_id))
    /\ pc' = "loop"
    /\ UNCHANGED <<env, serverChunks, samples, loaded, i, agent_id, resp, clientOpen,
                   clientOpened, requests, responses, inflight, failure>>

\* print("Done!")
PrintDone ==
    /\ pc = "done"
    /\ output' = Append(output, DoneLine)
    /\ pc' = "finished"
    /\ UNCHANGED <<env, serverChunks, samples, loaded, i, agent_id, resp, clientOpen,
                   clientOpened, requests, responses, inflight, failure>>

\* The script is run again on the same dataset and server: a fresh process,
\* nothing of the previous run is kept but what the server stores.
Rerun ==
    /\ pc \in Terminal
    /\ run < MaxRuns
    /\ run' = run + 1
    /\ prevPc' = pc
    /\ prevRequests' = requests
    /\ prevOutput' = output
    /\ pc' = "exists"
    /\ samples' = <<>>
    /\ loaded' = FALSE
    /\ i' = 0
    /\ agent_id' = ""
    /\ resp' = 0
    /\ clientOpen' = FALSE
    /\ clientOpened' = FALSE
    /\ requests' = <<>>
    /\ responses' = <<>>
    /\ inflight' = 0
    /\ output' = <<>>
    /\ failure' = ""
    /\ UNCHANGED <<fileExists, malformed, dataset, serverChunks>>

Next ==
    \/ CheckExists
    \/ Load
    \/ PrintHeader
    \/ OpenClient
    \/ Loop
    \/ Derive
    \/ PostRequest
    \/ AwaitResponse
    \/ RaiseForStatus
    \/ PrintCleared
    \/ PrintDone
    \/ Rerun

Spec == Init /\ [][Next]_vars

\* ------------------------------------------------------------ properties
Range(f) == {f[k] : k \in DOMAIN f}
HasId(r) == "sample_id" \in DOMAIN r
ValidDataset == fileExists /\ ~malformed /\ \A k \in 1..Len(dataset) : HasId(dataset[k])
Succeeded(o) == o.kind = "status" /\ IsSuccess(o.code)
AllSucceeded == \A k \in 1..Len(responses) : Succeeded(responses[k])
IsClearedLine(l) == l.kind = "cleared"
Cleared == SelectSeq(output, IsClearedLine)
DonePrinted == DoneLine \in Range(output)
\* position of the first record without a sample_id, 0 when there is none
FirstMissing ==
    IF \A k \in 1..Len(dataset) : HasId(dataset[k]) THEN 0
    ELSE CHOOSE k \in 1..Len(dataset) :
           /\ ~HasId(dataset[k])
           /\ \A j \in 1..(k - 1) : HasId(dataset[j])
ExpectedAgent(k) == sample_id_to_uuid(dataset[k].sample_id)
HttpFailed ==
    /\ responses # <<>>
    /\ responses[Len(responses)].kind = "status"
    /\ ~IsSuccess(responses[Len(responses)].code)

\* C1 (as stated): for every valid dataset file, a run that has ended has
\* issued exactly one request per record, the i-th request carrying
\* sample_id_to_uuid of the i-th record's sample_id.
C1_Original ==
    (pc \in Terminal /\ ValidDataset) =>
        /\ Len(requests) = Len(dataset)
        /\ \A k \in 1..Len(dataset) : requests[k].agent_id = ExpectedAgent(k)

\* C1 (amended): for every valid dataset file, a run in which every request
\* got a success response has issued exactly one request per record when it
\* ends; and in any run, at any time, there are at most as many requests as
\* records and the i-th request carries sample_id_to_uuid of the i-th
\* record's sample_id.
C1_RequestPerRecord ==
    /\ Len(requests) <= Len(dataset)
    /\ \A k \in 1..Len(requests) :
          HasId(dataset[k]) /\ requests[k].agent_id = ExpectedAgent(k)
    /\ (pc \in Terminal /\ ValidDataset /\ AllSucceeded) =>
          /\ pc = "finished"
          /\ Len(requests) = Len(dataset)

C1_Witness ==
    /\ pc = "finished"
    /\ ValidDataset
    /\ Len(dataset) >= 2
    /\ Len(requests) = Len(dataset)
    /\ dataset[1] # dataset[2]

\* C2: at every moment the requests issued so far are, in order, the requests
\* of the first records of the file: request k was made for record k with
\* the agent id derived from record k's sample_id.
C2_PrefixOfFileOrder ==
    /\ Len(requests) <= Len(dataset)
    /\ \A k \in 1..Len(requests) :
          /\ requests[k].record = k
          /\ HasId(dataset[k])
          /\ requests[k] = [path |-> "/memory/clear-chunks",
                            agent_id |-> ExpectedAgent(k), record |-> k]

C2_Witness ==
    /\ pc = "await"
    /\ Len(requests) >= 2
    /\ Len(requests) < Len(dataset)
    /\ requests[1].agent_id # requests[2].agent_id

\* C3: once a request has come back with a non-2xx status, the run is about
\* to fail or has failed with HTTPStatusError; the failing record has no
\* "cleared" line, "Done!" is not printed, and no further request or line
\* follows in this run.
C3_StateAfterBadStatus ==
    HttpFailed =>
        /\ pc \in {"raise", "crashed"}
        /\ (pc = "crashed" => failure = "HTTPStatusError")
        /\ Len(requests) = Len(responses)
        /\ requests[Len(requests)].record = i
        /\ Len(Cleared) = i - 1
        /\ ~DonePrinted
        /\ inflight = 0

C3_StepAfterBadStatus ==
    (HttpFailed /\ run' = run) =>
        /\ pc' = "crashed"
        /\ failure' = "HTTPStatusError"
        /\ requests' = requests
        /\ output' = output

C3_FailFast == [](C3_StateAfterBadStatus) /\ [][C3_StepAfterBadStatus]_vars

C3_Witness ==
    /\ pc = "crashed"
    /\ failure = "HTTPStatusError"
    /\ i >= 2
    /\ i < Len(samples)
    /\ responses[i].code = 302

\* C4: when the dataset path does not exist the run only reports the path
\* and returns: no request, no parse, no client, no exception; and this is
\* the only way the run returns early.
C4_MissingFile ==
    /\ ~fileExists =>
          /\ pc \in {"exists", "returned"}
          /\ requests = <<>>
          /\ ~loaded
          /\ ~clientOpened
          /\ failure = ""
          /\ (pc = "returned" => output = <<ErrorLine>>)
    /\ pc = "returned" => ~fileExists

C4_Witness ==
    /\ pc = "returned"
    /\ ~fileExists
    /\ output = <<ErrorLine>>

\* C5: "Done!" is printed exactly when the dataset was loaded and every
\* record's request got a success response; it is the last line, and no
\* request is issued after it in the same run.
C5_DoneState ==
    /\ DonePrinted =>
          /\ pc = "finished"
          /\ fileExists /\ loaded
          /\ failure = ""
          /\ Len(requests) = Len(dataset)
          /\ Len(responses) = Len(dataset)
          /\ AllSucceeded
          /\ inflight = 0
          /\ output[Len(output)] = DoneLine
          /\ Len(SelectSeq(output, LAMBDA l : l = DoneLine)) = 1
    /\ (pc \in Terminal /\ loaded /\ Len(responses) = Len(dataset) /\ AllSucceeded)
          => DonePrinted
    /\ (pc \in Terminal /\ pc # "finished") => ~DonePrinted

C5_DoneStep == (DonePrinted /\ run' = run) => requests' = requests

C5_DoneIffFullSuccess == [](C5_DoneState) /\ [][C5_DoneStep]_vars

C5_Witness ==
    /\ pc = "finished"
    /\ DonePrinted
    /\ Len(requests) >= 2

\* C6: at most one request is outstanding, exactly while the run waits in
\* client.post; every request before the newest one has already returned a
\* success response.
C6_OneInFlight ==
    /\ inflight \in {0, 1}
    /\ inflight = Len(requests) - Len(responses)
    /\ (inflight = 1 <=> pc = "await")
    /\ \A k \in 1..(Len(requests) - 1) : Succeeded(responses[k])
    /\ Len(Cleared) >= Len(requests) - 1

C6_Witness ==
    /\ pc = "await"
    /\ inflight = 1
    /\ Len(requests) >= 2

\* C7: no record is requested twice in a run, and a timeout or transport
\* error is the last thing that happens to the run: it is the outcome of the
\* newest request, the run has failed with it, and nothing was retried.
C7_NoRetry ==
    /\ \A a, b \in 1..Len(requests) :
          a # b => requests[a].record # requests[b].record
    /\ \A k \in 1..Len(responses) :
          responses[k].kind # "status" =>
              /\ k = Len(responses)
              /\ k = Len(requests)
              /\ pc = "crashed"
              /\ failure = responses[k].kind
              /\ ~DonePrinted
              /\ Len(Cleared) = k - 1

C7_Witness ==
    /\ pc = "crashed"
    /\ failure = "timeout"
    /\ i >= 2
    /\ i < Len(samples)

\* C8: when two successive runs on the same dataset both run to completion,
\* the second issues the same requests and prints the same lines as the
\* first, whatever the server still stored.
C8_Idempotent ==
    (run >= 2 /\ prevPc = "finished" /\ pc = "finished") =>
        /\ requests = prevRequests
        /\ output = prevOutput

C8_Witness ==
    /\ run >= 2
    /\ prevPc = "finished"
    /\ pc = "finished"
    /\ Len(requests) >= 2
    /\ responses[1].code # responses[2].code
    /\ output = prevOutput

\* C9: the "cleared" lines are, in file order, those of the records whose
\* request succeeded, at most one request ahead of the lines; the header
\* comes first; the agents reported cleared have no chunks on the server;
\* every request is the clearing request of its record (none compensates);
\* a run that fails at record k has reported exactly records 1..k-1.
C9_ProgressTracksEffect ==
    /\ Len(requests) - Len(Cleared) \in {0, 1}
    /\ \A k \in 1..Len(Cleared) :
          /\ HasId(dataset[k])
          /\ Cleared[k] = ClearedLine(dataset[k], ExpectedAgent(k))
          /\ output[k + 1] = Cleared[k]
          /\ k <= Len(responses) /\ Succeeded(responses[k])
          /\ ExpectedAgent(k) \notin serverChunks
    /\ Cardinality({k \in 1..Len(responses) : Succeeded(responses[k])}) - Len(Cleared)
          \in {0, 1}
    /\ (Len(requests) > Len(Cleared)) => pc \in {"await", "raise", "print", "crashed"}
    /\ \A k \in 1..Len(requests) : requests[k].record = k
    /\ (pc = "crashed" /\ loaded) => (i >= 1 /\ Len(Cleared) = i - 1)

C9_Witness ==
    /\ pc = "crashed"
    /\ failure = "HTTPStatusError"
    /\ Len(Cleared) >= 2
    /\ Len(requests) = Len(Cleared) + 1

\* C10: a record without sample_id stops the run only when the loop reaches
\* it: the records before it are requested and reported (while they
\* succeed), then the run fails with KeyError, after the header was printed,
\* with no request for that record or a later one and without "Done!".
C10_MissingSampleId ==
    /\ FirstMissing # 0 =>
          /\ \A k \in 1..Len(requests) : requests[k].record < FirstMissing
          /\ ~DonePrinted
          /\ (pc \in Terminal /\ fileExists /\ AllSucceeded) => failure = "KeyError"
    /\ failure = "KeyError" =>
          /\ pc = "crashed"
          /\ loaded /\ clientOpened /\ ~clientOpen
          /\ FirstMissing # 0
          /\ i = FirstMissing
          /\ Len(requests) = FirstMissing - 1
          /\ Len(Cleared) = FirstMissing - 1
          /\ AllSucceeded
          /\ output[1] = HeaderLine(Len(dataset))

C10_Witness ==
    /\ failure = "KeyError"
    /\ FirstMissing >= 2
    /\ FirstMissing < Len(dataset)
    /\ Len(Cleared) = FirstMissing - 1

====
